---- MODULE Spec2Model ----
(***************************************************************************)
(* The URL shortener Lambda handler (Go source embedded in                 *)
(* src/go/README.md, lines 80-430) over its DynamoDB table and its         *)
(* CloudWatch metrics sink.                                                *)
(*                                                                         *)
(* Strings the handler inspects (URLs, short codes) are sequences of       *)
(* one-character strings.  Every handler invocation runs in a slot of      *)
(* Procs; a handler is cut into steps at its calls to the store and at     *)
(* its reads of the clock, which is where other invocations, the TTL purge *)
(* and the passing of time can interleave.  A response, once produced, is  *)
(* handed back before anything else happens (handing it back touches       *)
(* nothing shared).                                                        *)
(***************************************************************************)
EXTENDS Integers, Sequences, FiniteSets, TLC

VARIABLES
    store,       \* the DynamoDB table: short_code -> item (attribute map)
    now,         \* the wall clock, epoch seconds
    urls,        \* the URL strings clients submit in this run
    started,     \* how many invocations have been delivered (bounds the run)
    pc,          \* per slot: position of the invocation running in it
    req,         \* per slot: the APIGatewayV2HTTPRequest being served
    loc,         \* per slot: the handler's local variables
    resp,        \* per slot: the APIGatewayV2HTTPResponse once produced
    goroutines,  \* detached `go func()` metric publishers not yet run, per metric name
    sink,        \* CloudWatch: datapoints accepted, per metric name
    epoch,       \* history: per code, what happened since the last create write
    landed       \* history: the URLs of the creates whose PutItem succeeded

vars == <<store, now, urls, started, pc, req, loc, resp, goroutines, sink, epoch, landed>>

----------------------------------------------------------------------------
(* Bounds of the model *)

NumProcs == 2
MaxRequests == 2

Procs == 1..NumProcs

----------------------------------------------------------------------------
(* Characters and strings *)

LowerLetters == <<"a", "b", "c", "d", "e", "f", "g", "h", "i", "j", "k", "l", "m", "n", "o", "p", "q", "r", "s", "t", "u", "v", "w", "x", "y", "z">>
UpperLetters == <<"A", "B", "C", "D", "E", "F", "G", "H", "I", "J", "K", "L", "M", "N", "O", "P", "Q", "R", "S", "T", "U", "V", "W", "X", "Y", "Z">>
Digits == <<"0", "1", "2", "3", "4", "5", "6", "7", "8", "9">>

Range(s) == {s[i] : i \in DOMAIN s}

IsLetter(c) == c \in Range(LowerLetters) \cup Range(UpperLetters)

\* strings.ToLower, one character
ToLowerChar(c) ==
    IF c \in Range(UpperLetters)
    THEN LowerLetters[CHOOSE i \in DOMAIN UpperLetters : UpperLetters[i] = c]
    ELSE c

ToLower(s) == [i \in DOMAIN s |-> ToLowerChar(s[i])]

EmptyString == <<>>

\* The URL strings submitted in the model
UrlFoo == <<"h", "t", "t", "p", "s", ":", "/", "/", "f", "o", "o", ".", "c", "o", "m">>
UrlUpper == <<"H", "T", "T", "P", ":", "/", "/", "f", "o", "o", ".", "c", "o", "m">>
UrlCollideA == <<"h", "t", "t", "p", ":", "/", "/", "a", ".", "i", "o", "/", "2", "8", "0", "6", "6">>
UrlCollideB == <<"h", "t", "t", "p", ":", "/", "/", "a", ".", "i", "o", "/", "1", "0", "9", "4", "4", "4">>
UrlFtp == <<"f", "t", "p", ":", "/", "/", "f", "o", "o", ".", "c", "o", "m">>
UrlNotAUrl == <<"n", "o", "t", "-", "a", "-", "u", "r", "l">>
UrlNoScheme == <<":", "/", "/", "x">>

----------------------------------------------------------------------------
(* crypto/sha256 + encoding/hex: the lower-case hex digest, tabulated for  *)
(* the strings of the model (values computed with SHA-256; the first is    *)
(* the vector of TestGenerateShortCode).  UrlCollideA and UrlCollideB are  *)
(* two URLs whose digests really share their first 8 hex characters.       *)

Sha256Hex(input) ==
    CASE input = UrlFoo ->
           <<"a", "9", "a", "9", "b", "5", "6", "9", "a", "6", "9", "b", "7", "b", "d", "d", "9", "a", "f", "0", "1", "d", "4", "a", "f", "6", "2", "c", "8", "9", "b", "6", "e", "b", "f", "8", "d", "f", "9", "c", "4", "f", "7", "7", "d", "9", "9", "4", "4", "b", "b", "6", "4", "f", "3", "4", "e", "7", "c", "0", "e", "1", "8", "6">>
      [] input = UrlUpper ->
           <<"b", "b", "0", "3", "a", "e", "7", "9", "e", "5", "3", "a", "c", "2", "7", "2", "6", "2", "2", "5", "a", "a", "c", "c", "6", "3", "f", "9", "e", "d", "3", "a", "8", "6", "b", "1", "d", "2", "5", "8", "b", "d", "d", "4", "b", "5", "2", "7", "a", "d", "1", "6", "9", "e", "c", "a", "f", "a", "1", "0", "b", "f", "e", "7">>
      [] input = UrlCollideA ->
           <<"4", "f", "3", "c", "4", "f", "0", "7", "1", "c", "8", "3", "8", "c", "e", "2", "5", "6", "6", "0", "2", "4", "3", "0", "2", "1", "f", "a", "4", "a", "9", "b", "7", "a", "f", "1", "8", "c", "a", "6", "8", "5", "0", "0", "c", "a", "b", "6", "a", "c", "7", "8", "9", "a", "7", "5", "8", "f", "b", "b", "a", "d", "1", "f">>
      [] input = UrlCollideB ->
           <<"4", "f", "3", "c", "4", "f", "0", "7", "0", "6", "3", "a", "5", "6", "9", "c", "a", "8", "0", "3", "6", "a", "9", "0", "2", "e", "6", "d", "6", "a", "1", "9", "d", "f", "5", "1", "6", "0", "1", "b", "e", "0", "4", "f", "b", "7", "0", "3", "8", "f", "c", "6", "6", "8", "7", "2", "2", "1", "2", "2", "6", "4", "6", "f">>
      [] input = UrlFtp ->
           <<"3", "f", "5", "2", "f", "c", "5", "c", "4", "a", "7", "3", "f", "f", "0", "6", "5", "b", "0", "a", "4", "b", "d", "2", "7", "c", "9", "f", "5", "4", "6", "6", "4", "d", "b", "3", "b", "5", "7", "5", "d", "9", "4", "c", "7", "5", "1", "b", "d", "9", "5", "e", "1", "a", "9", "3", "c", "4", "6", "8", "f", "6", "6", "5">>
      [] input = UrlNotAUrl ->
           <<"b", "a", "6", "3", "a", "4", "e", "5", "5", "d", "6", "6", "6", "e", "6", "4", "b", "8", "b", "f", "f", "6", "d", "4", "9", "b", "b", "9", "0", "6", "d", "8", "b", "3", "d", "b", "5", "8", "f", "f", "4", "e", "7", "5", "7", "1", "4", "1", "0", "8", "9", "4", "b", "a", "0", "0", "0", "f", "d", "8", "a", "4", "6", "8">>
      [] input = UrlNoScheme ->
           <<"7", "0", "2", "c", "3", "8", "c", "c", "6", "5", "1", "6", "c", "3", "9", "3", "e", "9", "d", "6", "8", "d", "5", "5", "4", "0", "b", "d", "d", "5", "0", "7", "a", "b", "3", "8", "e", "5", "b", "6", "8", "2", "b", "e", "c", "8", "8", "c", "4", "1", "7", "f", "7", "d", "f", "1", "3", "1", "b", "9", "c", "1", "f", "8">>
      [] input = EmptyString ->
           <<"e", "3", "b", "0", "c", "4", "4", "2", "9", "8", "f", "c", "1", "c", "1", "4", "9", "a", "f", "b", "f", "4", "c", "8", "9", "9", "6", "f", "b", "9", "2", "4", "2", "7", "a", "e", "4", "1", "e", "4", "6", "4", "9", "b", "9", "3", "4", "c", "a", "4", "9", "5", "9", "9", "1", "b", "7", "8", "5", "2", "b", "8", "5", "5">>

\* Mutant: the code is salted with the clock
generateShortCodeTimed(input) ==
    IF now = 0 THEN SubSeq(Sha256Hex(input), 1, 8) ELSE SubSeq(Sha256Hex(input), 2, 9)

\* hex.EncodeToString(hash[:])[:8]
generateShortCode(input) == SubSeq(Sha256Hex(input), 1, 8)

----------------------------------------------------------------------------
(* net/url: url.Parse, as far as handleCreate depends on it: the scheme    *)
(* scan of getScheme, the "missing protocol scheme" error and the          *)
(* lower-casing of the scheme.                                             *)

IsSchemeExtra(c) == c \in Range(Digits) \cup {"+", "-", "."}

\* Position of the first character that ends getScheme's scan, 0 if none
RECURSIVE SchemeStop(_, _)
SchemeStop(s, i) ==
    IF i > Len(s) THEN 0
    ELSE IF IsLetter(s[i]) THEN SchemeStop(s, i + 1)
    ELSE IF IsSchemeExtra(s[i]) /\ i > 1 THEN SchemeStop(s, i + 1)
    ELSE i

\* getScheme: [err, scheme]
getScheme(rawURL) ==
    LET i == SchemeStop(rawURL, 1) IN
    IF i = 0 THEN [err |-> FALSE, scheme |-> EmptyString]
    ELSE IF rawURL[i] = ":"
         THEN IF i = 1
              THEN [err |-> TRUE, scheme |-> EmptyString]
              ELSE [err |-> FALSE, scheme |-> SubSeq(rawURL, 1, i - 1)]
         ELSE [err |-> FALSE, scheme |-> EmptyString]

\* url.Parse: [err, Scheme]
urlParse(rawURL) ==
    LET g == getScheme(rawURL) IN
    [err |-> g.err, Scheme |-> IF g.err THEN EmptyString ELSE ToLower(g.scheme)]

SchemeHttp == <<"h", "t", "t", "p">>
SchemeHttps == <<"h", "t", "t", "p", "s">>

\* Mutant: only the parse error is checked, not the scheme
isValidHTTPUrlAnyScheme(rawURL) == ~ urlParse(rawURL).err

\* the validation of handleCreate; isVaildHTTPUrl in the tests
isValidHTTPUrl(rawURL) ==
    LET parsedURL == urlParse(rawURL) IN
    ~ (parsedURL.err \/ (parsedURL.Scheme # SchemeHttp /\ parsedURL.Scheme # SchemeHttps))

----------------------------------------------------------------------------
(* encoding/json: json.Unmarshal of the request body into map[string]string. *)
(* A body is either not JSON at all or a JSON object, given by its members   *)
(* <<key, value>>; a value is a JSON string or a JSON number.                *)

JsonString(s) == [t |-> "string", s |-> s]
JsonNumber == [t |-> "number", s |-> EmptyString]

NotJson == [valid |-> FALSE, members |-> {}]
JsonObject(members) == [valid |-> TRUE, members |-> members]

\* [err, data]: data is the map, a set of <<key, string>>
jsonUnmarshal(body) ==
    IF ~ body.valid THEN [err |-> TRUE, data |-> {}]
    ELSE IF \E m \in body.members : m[2].t # "string"
         THEN [err |-> TRUE, data |-> {}]
         ELSE [err |-> FALSE, data |-> {<<m[1], m[2].s>> : m \in body.members}]

\* requestData[key]: the zero value for a missing key
MapGet(data, key) ==
    IF \E m \in data : m[1] = key
    THEN (CHOOSE m \in data : m[1] = key)[2]
    ELSE EmptyString

----------------------------------------------------------------------------
(* Time *)

\* 7 * 24 * time.Hour, in seconds
SevenDays == 7 * 24 * 3600

\* time.Format(time.RFC3339) of an instant given in epoch seconds (UTC):
\* the date as a day number, and the time of day
FormatRFC3339(t) ==
    [day |-> t \div 86400,
     hh |-> (t % 86400) \div 3600,
     mm |-> (t % 3600) \div 60,
     ss |-> t % 60]

\* The instants the clock passes through in the model: a start, one second
\* later, and seven days after that.  A record stamped at 1 expires exactly at
\* the last instant; a record stamped at 0 has expired by then.
Instants == {0, 1, SevenDays + 1}

----------------------------------------------------------------------------
(* URLRecord and its DynamoDB encoding *)

URLRecord(code, url, expiresAt, createdAt, clicks) ==
    [ShortCode |-> code, OriginalURL |-> url, ExpiresAt |-> expiresAt,
     CreatedAt |-> createdAt, ClickCount |-> clicks]

ZeroRecord == URLRecord(EmptyString, EmptyString, 0, FormatRFC3339(0), 0)

\* Mutant: the URL is stored normalised to lower case
MarshalMapLowered(record) ==
    IF record.ClickCount = 0
    THEN [short_code |-> record.ShortCode, original_url |-> ToLower(record.OriginalURL),
          expires_at |-> record.ExpiresAt, created_at |-> record.CreatedAt]
    ELSE [short_code |-> record.ShortCode, original_url |-> ToLower(record.OriginalURL),
          expires_at |-> record.ExpiresAt, created_at |-> record.CreatedAt,
          click_count |-> record.ClickCount]

\* attributevalue.MarshalMap: click_count is tagged omitempty
MarshalMap(record) ==
    IF record.ClickCount = 0
    THEN [short_code |-> record.ShortCode, original_url |-> record.OriginalURL,
          expires_at |-> record.ExpiresAt, created_at |-> record.CreatedAt]
    ELSE [short_code |-> record.ShortCode, original_url |-> record.OriginalURL,
          expires_at |-> record.ExpiresAt, created_at |-> record.CreatedAt,
          click_count |-> record.ClickCount]

\* Mutant: the stored click count is not read back
UnmarshalMapNoClicks(item) ==
    URLRecord(item.short_code, item.original_url, item.expires_at, item.created_at, 0)

\* attributevalue.UnmarshalMap: a missing attribute leaves the zero value
UnmarshalMap(item) ==
    URLRecord(item.short_code, item.original_url, item.expires_at, item.created_at,
              IF "click_count" \in DOMAIN item THEN item.click_count ELSE 0)

\* Mutant: the write keeps the attributes of the old item that the new one lacks
PutItemMerging(table, item) ==
    [k \in DOMAIN table \cup {item.short_code} |->
        IF k # item.short_code THEN table[k]
        ELSE IF k \notin DOMAIN table THEN item
        ELSE [a \in DOMAIN table[k] \cup DOMAIN item |->
                 IF a \in DOMAIN item THEN item[a] ELSE table[k][a]]]

\* Mutant: the write is conditional on the key being absent
PutItemIfAbsent(table, item) ==
    [k \in DOMAIN table \cup {item.short_code} |->
        IF k \in DOMAIN table THEN table[k] ELSE item]

\* dynamodb PutItem: unconditional write under the item's partition key
PutItem(table, item) ==
    [k \in DOMAIN table \cup {item.short_code} |->
        IF k = item.short_code THEN item ELSE table[k]]

\* the store's TTL deletion of one item
DeleteItem(table, code) == [k \in DOMAIN table \ {code} |-> table[k]]

----------------------------------------------------------------------------
(* Requests and responses *)

defaultBaseURL == <<"h", "t", "t", "p", "s", ":", "/", "/", "u", "r", "l", "-", "s", "h", "o", "r", "t", "e", "n", "e", "r", ".", "v", "i", "b", "t", "e", "l", "l", "e", "c", "t", ".", "d", "e">>

baseURL == defaultBaseURL

\* fmt.Sprintf("%s/s/%s", baseURL, shortCode)
ShortUrl(shortCode) == baseURL \o <<"/", "s", "/">> \o shortCode

Request(method, rawPath, shortCode, body) ==
    [method |-> method, rawPath |-> rawPath, shortCode |-> shortCode, body |-> body]

\* the string a request body carries under "url" (empty if it carries none)
SubmittedUrl(request) ==
    IF \E m \in request.body.members : m[1] = "url" /\ m[2].t = "string"
    THEN (CHOOSE m \in request.body.members : m[1] = "url")[2].s
    ELSE EmptyString

UrlBody(u) == JsonObject({<<"url", JsonString(u)>>})

ValidUrls == {UrlFoo, UrlUpper, UrlCollideA, UrlCollideB}

\* What the clients of one run submit: two URLs with different codes, or two
\* URLs with the same code.  `seed` is the URL whose record the table may
\* already hold when the run starts.
Universes ==
    {[urls |-> {UrlFoo, UrlUpper}, seed |-> UrlUpper],
     [urls |-> {UrlCollideA, UrlCollideB}, seed |-> UrlCollideA]}
InvalidUrls == {UrlFtp, UrlNotAUrl, UrlNoScheme, EmptyString}

CreateBodies ==
    {UrlBody(u) : u \in ValidUrls \cup InvalidUrls}
    \cup {NotJson, JsonObject({}), JsonObject({<<"url", JsonNumber>>})}

RedirectCodes == {generateShortCode(u) : u \in ValidUrls}

CreateRequests == {Request("POST", "/create", EmptyString, b) : b \in CreateBodies}
RedirectRequests == {Request("GET", "/s/{shortCode}", c, NotJson) : c \in RedirectCodes}
MetricsRequests == {Request("GET", "/metrics", EmptyString, NotJson)}
OtherRequests ==
    {Request("GET", "/unknown", EmptyString, NotJson),
     Request("GET", "/create", EmptyString, NotJson),
     Request("POST", "/metrics", EmptyString, NotJson)}
    \cup {Request("POST", "/s/{shortCode}", c, NotJson) : c \in RedirectCodes}

Requests == CreateRequests \cup RedirectRequests \cup MetricsRequests \cup OtherRequests

\* Mutant: a request that carries a shortCode is a redirect, whatever its method
RouteAnyMethod(request) ==
    IF request.method = "POST" /\ request.rawPath = "/create" THEN "handleCreate"
    ELSE IF request.shortCode # EmptyString THEN "handleRedirect"
    ELSE IF request.method = "GET" /\ request.rawPath = "/metrics" THEN "handleMetrics"
    ELSE "notFound"

\* handleRequest: which handler a request is dispatched to
Route(request) ==
    IF request.method = "POST" /\ request.rawPath = "/create" THEN "handleCreate"
    ELSE IF request.method = "GET" /\ request.shortCode # EmptyString THEN "handleRedirect"
    ELSE IF request.method = "GET" /\ request.rawPath = "/metrics" THEN "handleMetrics"
    ELSE "notFound"

ErrorBody(msg) == [kind |-> "error", error |-> msg]
InternalErrorBody == ErrorBody("Internal server error")

Response(status, body, location) ==
    [StatusCode |-> status, Body |-> body, Location |-> location]

NoResponse == Response(0, [kind |-> "none"], EmptyString)

MetricNames == {"UrlsAccessed", "MetricsAccessed"}

----------------------------------------------------------------------------
(* State *)

NoLocals ==
    [rawURL |-> EmptyString,     \* handleCreate: rawURL
     shortCode |-> EmptyString,  \* shortCode
     expiresAt |-> 0,            \* handleCreate: expiresAt
     began |-> 0,                \* history: the clock as handleCreate first read it
     record |-> ZeroRecord,      \* record
     readOk |-> FALSE,           \* history: whether GetItem / Scan returned without error
     found |-> FALSE,            \* handleRedirect: result.Item != nil
     item |-> MarshalMap(ZeroRecord), \* handleRedirect: result.Item
     nowUnix |-> 0,              \* handleRedirect: time.Now().Unix() of the expiry check
     puts |-> 0,                 \* history: PutItem calls issued by this invocation
     putOk |-> FALSE,            \* history: whether the last PutItem succeeded
     spawned |-> 0,              \* history: metric goroutines started by this invocation
     fresh |-> EmptyString]      \* history: the URL of the create whose untouched record was read

\* The table as a create(u) at instant 0 and one redirect since leave it
SeedTable(u) ==
    PutItem(<<>>, MarshalMap(URLRecord(generateShortCode(u), u, SevenDays, FormatRFC3339(0), 1)))

\* ... and the history of that table
SeedEpoch(u) ==
    [c \in {generateShortCode(u)} |->
        [url |-> u, clean |-> TRUE, returned |-> 1, written |-> TRUE]]

\* The table as a create(u) received at instant 1 leaves it
LaterTable(u) ==
    PutItem(<<>>, MarshalMap(URLRecord(generateShortCode(u), u, 1 + SevenDays, FormatRFC3339(1), 0)))

\* ... and the history of that table
LaterEpoch(u) ==
    [c \in {generateShortCode(u)} |->
        [url |-> u, clean |-> TRUE, returned |-> 0, written |-> FALSE]]

\* The locals of a create(u) received at instant 0 that has built its record
\* and not yet called PutItem
StalledLocals(u) ==
    [NoLocals EXCEPT !.rawURL = u,
                     !.shortCode = generateShortCode(u),
                     !.expiresAt = SevenDays,
                     !.record = URLRecord(generateShortCode(u), u, SevenDays, FormatRFC3339(0), 0)]

\* No invocation in flight, against a table that is empty or holds one record
\* of earlier invocations
InitIdle(U) ==
    /\ now = 0
    /\ \/ store = <<>> /\ epoch = <<>> /\ landed = {}
       \/ store = SeedTable(U.seed) /\ epoch = SeedEpoch(U.seed) /\ landed = {U.seed}
    /\ started = 0
    /\ pc = [p \in Procs |-> "idle"]
    /\ req = [p \in Procs |-> Request("", "", EmptyString, NotJson)]
    /\ loc = [p \in Procs |-> NoLocals]

\* A create received at instant 0 is still in flight at instant 1, before its
\* PutItem; a create of the same URL received at instant 1 has been served
InitStalled(U) ==
    /\ now = 1
    /\ store = LaterTable(U.seed) /\ epoch = LaterEpoch(U.seed) /\ landed = {U.seed}
    /\ started = 1
    /\ pc = [p \in Procs |-> IF p = 1 THEN "create_put" ELSE "idle"]
    /\ req = [p \in Procs |-> IF p = 1 THEN Request("POST", "/create", EmptyString, UrlBody(U.seed))
                                       ELSE Request("", "", EmptyString, NotJson)]
    /\ loc = [p \in Procs |-> IF p = 1 THEN StalledLocals(U.seed) ELSE NoLocals]

Init ==
    /\ \E U \in Universes :
          /\ urls = U.urls
          /\ InitIdle(U) \/ InitStalled(U)
    /\ resp = [p \in Procs |-> NoResponse]
    /\ goroutines = [m \in MetricNames |-> 0]
    /\ sink = [m \in MetricNames |-> 0]

\* Mutant: the handler starts no goroutine for the metric
GoPublishDropped(running, metricName) == running

\* go func() { publishCustomMetric(ctx, metricName, 1) }(): one more detached
\* goroutine that has yet to run
GoPublish(running, metricName) == [running EXCEPT ![metricName] = @ + 1]

\* A response has been produced and not yet handed back; nothing else moves
\* until it is
Delivering == \E p \in Procs : pc[p] = "done"

\* Whether a request is one the clients of this run send: it names no valid
\* URL, and no code, of another run
Submitted(request) ==
    /\ \A u \in ValidUrls \ urls : request.body # UrlBody(u)
    /\ request.shortCode \in {generateShortCode(u) : u \in urls} \cup {EmptyString}

\* A new invocation is delivered into the lowest free slot
CanStart(p) ==
    /\ ~ Delivering
    /\ started < MaxRequests
    /\ pc[p] = "idle"
    /\ \A q \in Procs : q < p => pc[q] # "idle"

Start(p, request) ==
    /\ started' = started + 1
    /\ req' = [req EXCEPT ![p] = request]

\* Mutant: the handler returns only once no other invocation is in flight
FinishWhenAlone(p, response) ==
    /\ \A q \in Procs \ {p} : pc[q] = "idle"
    /\ pc' = [pc EXCEPT ![p] = "done"]
    /\ resp' = [resp EXCEPT ![p] = response]

Finish(p, response) ==
    /\ pc' = [pc EXCEPT ![p] = "done"]
    /\ resp' = [resp EXCEPT ![p] = response]

\* invocations of handleRedirect that hold a record read for `code` and have not answered
Readers(code) ==
    {q \in Procs : pc[q] \in {"redirect_check", "redirect_put"} /\ req[q].shortCode = code}

----------------------------------------------------------------------------
(* handleRequest -> handleCreate *)

\* Up to the first clock read: parse the body, validate the URL, derive the
\* short code, compute expiresAt
CreateBegin(p, request) ==
    /\ CanStart(p)
    /\ Route(request) = "handleCreate"
    /\ Submitted(request)
    /\ Start(p, request)
    /\ LET parsed == jsonUnmarshal(request.body)
           rawURL == MapGet(parsed.data, "url")
       IN IF parsed.err
          THEN /\ Finish(p, Response(400, ErrorBody("Invalid JSON in request body"), EmptyString))
               /\ UNCHANGED loc
          ELSE IF rawURL = EmptyString
          THEN /\ Finish(p, Response(400, ErrorBody("URL parameter is required"), EmptyString))
               /\ UNCHANGED loc
          ELSE IF ~ isValidHTTPUrl(rawURL)
          THEN /\ Finish(p, Response(400, ErrorBody("Invalid URL: only http and https allowed"), EmptyString))
               /\ loc' = [loc EXCEPT ![p].rawURL = rawURL]
          ELSE /\ pc' = [pc EXCEPT ![p] = "create_stamp"]
               /\ loc' = [loc EXCEPT ![p].rawURL = rawURL,
                                     ![p].shortCode = generateShortCode(rawURL),
                                     ![p].expiresAt = now + SevenDays,
                                     ![p].began = now]
               /\ UNCHANGED resp
    /\ UNCHANGED <<store, now, urls, landed, goroutines, sink, epoch>>

\* The second clock read: build the record
CreateStamp(p) ==
    /\ ~ Delivering
    /\ pc[p] = "create_stamp"
    /\ loc' = [loc EXCEPT ![p].record =
                  URLRecord(loc[p].shortCode, loc[p].rawURL, loc[p].expiresAt,
                            FormatRFC3339(now), 0)]
    /\ pc' = [pc EXCEPT ![p] = "create_put"]
    /\ UNCHANGED <<store, now, urls, landed, started, req, resp, goroutines, sink, epoch>>

CreatedBody(p) ==
    [kind |-> "created",
     short_url |-> ShortUrl(loc[p].shortCode),
     expires_at |-> FormatRFC3339(loc[p].expiresAt)]

\* Mutant: the outcome of PutItem is not looked at
AfterCreatePutUnchecked(p, ok) == Response(200, CreatedBody(p), EmptyString)

\* what handleCreate answers after PutItem returned
AfterCreatePut(p, ok) ==
    IF ok THEN Response(200, CreatedBody(p), EmptyString)
    ELSE Response(500, InternalErrorBody, EmptyString)

\* PutItem, then the response
CreatePut(p) ==
    /\ ~ Delivering
    /\ pc[p] = "create_put"
    /\ LET item == MarshalMap(loc[p].record)
           code == item.short_code
       IN \/ /\ store' = PutItem(store, item)
             /\ epoch' = [k \in DOMAIN epoch \cup {code} |->
                            IF k = code
                            THEN [url |-> SubmittedUrl(req[p]), clean |-> Readers(code) = {},
                                  returned |-> 0, written |-> FALSE]
                            ELSE epoch[k]]
             /\ landed' = landed \cup {item.original_url}
             /\ loc' = [loc EXCEPT ![p].puts = @ + 1, ![p].putOk = TRUE]
             /\ Finish(p, AfterCreatePut(p, TRUE))
          \/ /\ loc' = [loc EXCEPT ![p].puts = @ + 1, ![p].putOk = FALSE]
             /\ Finish(p, AfterCreatePut(p, FALSE))
             /\ UNCHANGED <<store, epoch, landed>>
    /\ UNCHANGED <<now, urls, started, req, goroutines, sink>>

----------------------------------------------------------------------------
(* handleRequest -> handleRedirect *)

NotFoundBody == ErrorBody("Short URL not found")
ExpiredBody == ErrorBody("Short URL has expired")

\* Mutant: a missing item is answered as a server error
NotFoundAsServerError == Response(500, InternalErrorBody, EmptyString)

\* result.Item == nil
NotFoundResponse == Response(404, NotFoundBody, EmptyString)

\* Mutant: an expired record is answered in the words of a missing one
ExpiredAsNotFound == Response(404, NotFoundBody, EmptyString)

\* time.Now().Unix() > record.ExpiresAt
ExpiredResponse == Response(404, ExpiredBody, EmptyString)

\* the URL of the last create under `code`, while nothing has written under it since
FreshUrl(code) ==
    IF code \in DOMAIN epoch /\ ~ epoch[code].written
    THEN epoch[code].url ELSE EmptyString

\* GetItem, the nil check and UnmarshalMap
RedirectGet(p, request) ==
    /\ CanStart(p)
    /\ Route(request) = "handleRedirect"
    /\ Submitted(request)
    /\ Start(p, request)
    /\ LET shortCode == request.shortCode IN
       \/ \* GetItem fails
          /\ Finish(p, Response(500, InternalErrorBody, EmptyString))
          /\ loc' = [loc EXCEPT ![p].shortCode = shortCode]
       \/ \* GetItem succeeds
          IF shortCode \notin DOMAIN store
          THEN /\ Finish(p, NotFoundResponse)
               /\ loc' = [loc EXCEPT ![p].shortCode = shortCode, ![p].readOk = TRUE]
          ELSE /\ pc' = [pc EXCEPT ![p] = "redirect_check"]
               /\ loc' = [loc EXCEPT ![p].shortCode = shortCode,
                                     ![p].readOk = TRUE,
                                     ![p].found = TRUE,
                                     ![p].item = store[shortCode],
                                     ![p].record = UnmarshalMap(store[shortCode]),
                                     ![p].fresh = FreshUrl(shortCode)]
               /\ UNCHANGED resp
    /\ UNCHANGED <<store, now, urls, landed, goroutines, sink, epoch>>

\* Mutant: the record expires one second early
IsExpiredInclusive(t, record) == t >= record.ExpiresAt

\* time.Now().Unix() > record.ExpiresAt
IsExpired(t, record) == t > record.ExpiresAt

\* Mutant: the click is counted down
ClickedDown(record) == [record EXCEPT !.ClickCount = @ - 1]

\* Mutant: the click is counted twice
ClickedTwice(record) == [record EXCEPT !.ClickCount = @ + 2]

\* record.ClickCount++
Clicked(record) == [record EXCEPT !.ClickCount = @ + 1]

\* The expiry check against the clock, then record.ClickCount++
RedirectCheck(p) ==
    /\ ~ Delivering
    /\ pc[p] = "redirect_check"
    /\ IF IsExpired(now, loc[p].record)
       THEN /\ Finish(p, ExpiredResponse)
            /\ loc' = [loc EXCEPT ![p].nowUnix = now]
       ELSE /\ pc' = [pc EXCEPT ![p] = "redirect_put"]
            /\ loc' = [loc EXCEPT ![p].nowUnix = now,
                                  ![p].record = Clicked(loc[p].record)]
            /\ UNCHANGED resp
    /\ UNCHANGED <<store, now, urls, landed, started, req, goroutines, sink, epoch>>

\* Mutant: the redirect points at the short URL itself
RedirectResponseToSelf(record) == Response(301, [kind |-> "empty"], ShortUrl(record.ShortCode))

\* the response of a redirect
RedirectResponse(record) == Response(301, [kind |-> "empty"], record.OriginalURL)

\* Mutant: a failed write-back is answered as a missing record
AfterWriteBackGone(record, ok) ==
    IF ok THEN RedirectResponse(record) ELSE NotFoundResponse

\* Mutant: a failed write-back fails the request
AfterWriteBackFailing(record, ok) ==
    IF ok THEN RedirectResponse(record) ELSE Response(500, InternalErrorBody, EmptyString)

\* what handleRedirect answers after the write-back returned: its error is
\* logged and otherwise ignored
AfterWriteBack(record, ok) == RedirectResponse(record)

\* the history of a write-back under `code`
EpochAfterWriteBack(code, ok) ==
    IF code \in DOMAIN epoch
    THEN [epoch EXCEPT ![code].returned = @ + 1,
                       ![code].written = @ \/ ok]
    ELSE epoch

\* PutItem of the updated record (its failure is only logged), the detached
\* metric goroutine, and the redirect
RedirectPut(p) ==
    /\ ~ Delivering
    /\ pc[p] = "redirect_put"
    /\ LET item == MarshalMap(loc[p].record) IN
       \/ /\ store' = PutItem(store, item)
          /\ epoch' = EpochAfterWriteBack(item.short_code, TRUE)
          /\ loc' = [loc EXCEPT ![p].puts = @ + 1, ![p].putOk = TRUE, ![p].spawned = @ + 1]
       \/ /\ epoch' = EpochAfterWriteBack(item.short_code, FALSE)
          /\ loc' = [loc EXCEPT ![p].puts = @ + 1, ![p].putOk = FALSE, ![p].spawned = @ + 1]
          /\ UNCHANGED store
    /\ goroutines' = GoPublish(goroutines, "UrlsAccessed")
    /\ Finish(p, AfterWriteBack(loc[p].record, loc'[p].putOk))
    /\ UNCHANGED <<now, urls, landed, started, req, sink>>

----------------------------------------------------------------------------
(* handleRequest -> handleMetrics *)

RECURSIVE SumClicks(_)
\* the loop over scanResult.Items: urlsAccessed += record.ClickCount
SumClicks(items) ==
    IF items = {} THEN 0
    ELSE LET item == CHOOSE i \in items : TRUE
         IN UnmarshalMap(item).ClickCount + SumClicks(items \ {item})

\* Mutant: urls_accessed counts the records that were ever clicked
MetricsBodyCountingClicked(items, t) ==
    [kind |-> "metrics",
     urls_created |-> Cardinality(items),
     urls_accessed |-> Cardinality({i \in items : UnmarshalMap(i).ClickCount > 0}),
     unique_visitors |-> Cardinality({i \in items : UnmarshalMap(i).ClickCount > 0}),
     active_urls |-> Cardinality(items),
     timestamp |-> FormatRFC3339(t)]

MetricsBody(items, t) ==
    [kind |-> "metrics",
     urls_created |-> Cardinality(items),
     urls_accessed |-> SumClicks(items),
     unique_visitors |-> SumClicks(items),
     active_urls |-> Cardinality(items),
     timestamp |-> FormatRFC3339(t)]

\* Mutant: a failed Scan is reported as an empty table
MetricsFailedBodyUnflagged(t) ==
    [kind |-> "metrics",
     urls_created |-> 0, urls_accessed |-> 0, unique_visitors |-> 0, active_urls |-> 0,
     timestamp |-> FormatRFC3339(t)]

MetricsFailedBody(t) ==
    [kind |-> "metrics",
     urls_created |-> 0, urls_accessed |-> 0, unique_visitors |-> 0, active_urls |-> 0,
     timestamp |-> FormatRFC3339(t),
     error |-> "Failed to fetch metrics"]

\* the detached "MetricsAccessed" goroutine, the Scan and the summary
HandleMetrics(p, request) ==
    /\ CanStart(p)
    /\ Route(request) = "handleMetrics"
    /\ Start(p, request)
    /\ goroutines' = GoPublish(goroutines, "MetricsAccessed")
    /\ \/ \* Scan succeeds
          /\ loc' = [loc EXCEPT ![p].spawned = @ + 1, ![p].readOk = TRUE]
          /\ Finish(p, Response(200, MetricsBody({store[c] : c \in DOMAIN store}, now), EmptyString))
       \/ \* Scan fails
          /\ loc' = [loc EXCEPT ![p].spawned = @ + 1]
          /\ Finish(p, Response(200, MetricsFailedBody(now), EmptyString))
    /\ UNCHANGED <<store, now, urls, landed, sink, epoch>>

----------------------------------------------------------------------------
(* handleRequest: no route matches *)

HandleNotFound(p, request) ==
    /\ CanStart(p)
    /\ Route(request) = "notFound"
    /\ Submitted(request)
    /\ Start(p, request)
    /\ Finish(p, Response(404, ErrorBody("Not found"), EmptyString))
    /\ UNCHANGED <<store, now, urls, landed, loc, goroutines, sink, epoch>>

\* The response has been delivered: the slot is free again
Return(p) ==
    /\ pc[p] = "done"
    /\ pc' = [pc EXCEPT ![p] = "idle"]
    /\ req' = [req EXCEPT ![p] = Request("", "", EmptyString, NotJson)]
    /\ loc' = [loc EXCEPT ![p] = NoLocals]
    /\ resp' = [resp EXCEPT ![p] = NoResponse]
    /\ UNCHANGED <<store, now, urls, landed, started, goroutines, sink, epoch>>

----------------------------------------------------------------------------
(* The environment *)

\* A detached goroutine runs publishCustomMetric: PutMetricData is accepted,
\* or fails and the error is dropped
PublishCustomMetric(metricName) ==
    /\ ~ Delivering
    /\ goroutines[metricName] > 0
    /\ goroutines' = [goroutines EXCEPT ![metricName] = @ - 1]
    /\ \/ sink' = [sink EXCEPT ![metricName] = @ + 1]
       \/ UNCHANGED sink
    /\ UNCHANGED <<store, now, urls, landed, started, pc, req, loc, resp, epoch>>

\* The table's time-to-live on expires_at: an item past its expiry is deleted
\* at some later moment
TTLPurge(code) ==
    /\ ~ Delivering
    /\ code \in DOMAIN store
    /\ store[code].expires_at < now
    /\ store' = DeleteItem(store, code)
    /\ epoch' = [k \in DOMAIN epoch \ {code} |-> epoch[k]]
    /\ UNCHANGED <<now, urls, landed, started, pc, req, loc, resp, goroutines, sink>>

Tick(t) ==
    /\ ~ Delivering
    /\ t > now
    /\ now' = t
    /\ UNCHANGED <<store, urls, landed, started, pc, req, loc, resp, goroutines, sink, epoch>>

----------------------------------------------------------------------------

Next ==
    \/ \E p \in Procs, r \in Requests : CreateBegin(p, r)
    \/ \E p \in Procs : CreateStamp(p)
    \/ \E p \in Procs : CreatePut(p)
    \/ \E p \in Procs, r \in Requests : RedirectGet(p, r)
    \/ \E p \in Procs : RedirectCheck(p)
    \/ \E p \in Procs : RedirectPut(p)
    \/ \E p \in Procs, r \in Requests : HandleMetrics(p, r)
    \/ \E p \in Procs, r \in Requests : HandleNotFound(p, r)
    \/ \E p \in Procs : Return(p)
    \/ \E m \in MetricNames : PublishCustomMetric(m)
    \/ \E c \in RedirectCodes : TTLPurge(c)
    \/ \E t \in Instants : Tick(t)

Spec == Init /\ [][Next]_vars

\* the steps of invocation p's own handler after it received the request;
\* each contains at most one store call, which returns with success or failure
OwnStep(p) == CreateStamp(p) \/ CreatePut(p) \/ RedirectCheck(p) \/ RedirectPut(p)

\* Starts with no invocation in flight, whose clients submit two URLs of
\* one code, so that all creates and resolves of a run meet on that code
InitOneCode ==
    /\ \E U \in Universes :
          /\ Cardinality({generateShortCode(u) : u \in U.urls}) = 1
          /\ urls = U.urls
          /\ InitIdle(U)
    /\ resp = [p \in Procs |-> NoResponse]
    /\ goroutines = [m \in MetricNames |-> 0]
    /\ sink = [m \in MetricNames |-> 0]

\* The runtime hands every produced response back.  Nothing is assumed about
\* the progress of handlers, of metric goroutines, of the clock or of the TTL.
LiveSpec == InitOneCode /\ [][Next]_vars /\ \A p \in Procs : WF_vars(Return(p))

----------------------------------------------------------------------------
(* Properties *)

IsDone(p, route) == pc[p] = "done" /\ Route(req[p]) = route

\* the click count stored in an item
Clicks(item) == IF "click_count" \in DOMAIN item THEN item.click_count ELSE 0

\* C1: a resolve that read the record of a successful create(u) that nothing
\* has written under since, and that checked the clock no later than the
\* record's expiry, answers 301 with Location exactly u.
C1_CreateThenResolve ==
    \A p \in Procs :
        (/\ IsDone(p, "handleRedirect")
         /\ loc[p].fresh # EmptyString
         /\ loc[p].nowUnix <= loc[p].record.ExpiresAt)
        => (resp[p].StatusCode = 301 /\ resp[p].Location = loc[p].fresh)

C1_Witness ==
    \E p \in Procs :
        /\ IsDone(p, "handleRedirect")
        /\ loc[p].fresh = UrlUpper
        /\ resp[p].StatusCode = 301
        /\ resp[p].Location = UrlUpper

\* The create bodies the contract calls invalid: not JSON, no url, an empty
\* url, an unparsable url, a url of another scheme
InvalidCreateBodies == {NotJson, JsonObject({})} \cup {UrlBody(u) : u \in InvalidUrls}

\* C2: a create whose body is not JSON, or whose url is missing, empty,
\* unparsable or not http(s) is answered 400 in the step that receives it,
\* and that step leaves the store as it was and issues no write.
C2_InvalidCreateRejected ==
    [][\A p \in Procs :
          (/\ pc[p] = "idle" /\ pc'[p] # "idle"
           /\ Route(req'[p]) = "handleCreate"
           /\ req'[p].body \in InvalidCreateBodies)
          => (/\ pc'[p] = "done"
              /\ resp'[p].StatusCode = 400
              /\ resp'[p].Body.kind = "error"
              /\ loc'[p].puts = 0
              /\ store' = store)]_vars

C2_Witness ==
    \E p \in Procs :
        /\ IsDone(p, "handleCreate")
        /\ req[p].body = UrlBody(UrlFtp)
        /\ resp[p].StatusCode = 400
        /\ DOMAIN store # {}

\* a create that got past validation
Creating(p) ==
    /\ Route(req[p]) = "handleCreate"
    /\ pc[p] \in {"create_stamp", "create_put"} \/ (pc[p] = "done" /\ resp[p].StatusCode # 400)

\* C3: the short code of a create depends on the URL string alone: two
\* creates of the same string hold the same code, and a create of a string
\* that is already stored holds the code it is stored under, whenever that
\* record was written; the short_url returned names that code.
C3_DeterministicCode ==
    \A p \in Procs :
        Creating(p) =>
            /\ \A q \in Procs :
                   (Creating(q) /\ SubmittedUrl(req[q]) = SubmittedUrl(req[p]))
                   => loc[q].shortCode = loc[p].shortCode
            /\ \A c \in DOMAIN store :
                   store[c].original_url = SubmittedUrl(req[p])
                   => /\ loc[p].shortCode = c
                      /\ resp[p].StatusCode = 200 => resp[p].Body.short_url = ShortUrl(c)

C3_Witness ==
    \E p \in Procs :
        /\ IsDone(p, "handleCreate")
        /\ resp[p].StatusCode = 200
        /\ now > 0
        /\ \E q \in Procs :
              /\ q # p /\ pc[q] = "create_put"
              /\ SubmittedUrl(req[q]) = SubmittedUrl(req[p])
              /\ loc[q].expiresAt # loc[p].expiresAt

\* C4: a resolve that read a record and checked the clock after the record's
\* expiry answers 404 and no redirect, whether or not the record is still in
\* the store; one that checked the clock exactly at the expiry redirects.
C4_ExpiredIsNotFound ==
    \A p \in Procs :
        (IsDone(p, "handleRedirect") /\ loc[p].found)
        => /\ loc[p].nowUnix > loc[p].record.ExpiresAt
              => (resp[p].StatusCode = 404 /\ resp[p].Location = EmptyString)
           /\ loc[p].nowUnix = loc[p].record.ExpiresAt
              => resp[p].StatusCode = 301

C4_Witness ==
    \E p \in Procs :
        /\ IsDone(p, "handleRedirect")
        /\ loc[p].found
        /\ resp[p].StatusCode = 404
        /\ loc[p].shortCode \in DOMAIN store
        /\ store[loc[p].shortCode].expires_at < now

\* C5: a resolve of a code the store holds no record under at the moment of
\* its read, whose read succeeded, answers 404 in that step.
C5_UnknownIsNotFound ==
    [][\A p \in Procs :
          (/\ pc[p] = "idle" /\ pc'[p] # "idle"
           /\ Route(req'[p]) = "handleRedirect"
           /\ loc'[p].readOk
           /\ req'[p].shortCode \notin DOMAIN store)
          => (/\ pc'[p] = "done"
              /\ resp'[p].StatusCode = 404
              /\ resp'[p].Location = EmptyString)]_vars

C5_Witness ==
    \E p \in Procs :
        /\ IsDone(p, "handleRedirect")
        /\ loc[p].readOk
        /\ ~ loc[p].found
        /\ req[p].shortCode \notin DOMAIN store
        /\ DOMAIN store # {}
        /\ resp[p].StatusCode = 404

\* whether a finished resolve found its record expired
FoundExpired(p) == loc[p].found /\ loc[p].nowUnix > loc[p].record.ExpiresAt

\* C6 as stated: a missing code and an expired code get the same response,
\* 404 {"error": "Short URL not found"}.
C6_SameResponse ==
    \A p \in Procs :
        (/\ IsDone(p, "handleRedirect")
         /\ loc[p].readOk
         /\ ~ loc[p].found \/ FoundExpired(p))
        => resp[p] = Response(404, ErrorBody("Short URL not found"), EmptyString)

\* C6, amended: both are answered 404, the missing code with the body
\* {"error": "Short URL not found"}, the expired one with
\* {"error": "Short URL has expired"}.
C6_SameStatusOwnBody ==
    \A p \in Procs :
        (IsDone(p, "handleRedirect") /\ loc[p].readOk)
        => /\ ~ loc[p].found
              => resp[p] = Response(404, ErrorBody("Short URL not found"), EmptyString)
           /\ FoundExpired(p)
              => resp[p] = Response(404, ErrorBody("Short URL has expired"), EmptyString)

C6_Witness ==
    \E p \in Procs :
        /\ IsDone(p, "handleRedirect")
        /\ FoundExpired(p)
        /\ resp[p].StatusCode = 404

\* the history of a code whose record was created with no resolve in flight,
\* some resolves of which have been answered 301 since, none still in flight
Settled(c) ==
    /\ c \in DOMAIN epoch
    /\ c \in DOMAIN store
    /\ epoch[c].clean
    /\ epoch[c].returned >= 1
    /\ Readers(c) = {}

\* C7 as stated: after N >= 1 resolves of a freshly created record were
\* answered 301, with no create in between, 1 <= clickCount <= N.
C7_BetweenOneAndN ==
    \A c \in RedirectCodes :
        Settled(c)
        => (1 <= Clicks(store[c]) /\ Clicks(store[c]) <= epoch[c].returned)

\* C7, amended: after those N resolves clickCount <= N, and clickCount >= 1
\* provided the write-back of at least one of them succeeded (a resolve is
\* answered 301 also when its write-back fails, so clickCount can stay 0).
C7_AtMostN ==
    \A c \in RedirectCodes :
        Settled(c)
        => /\ Clicks(store[c]) <= epoch[c].returned
           /\ epoch[c].written => Clicks(store[c]) >= 1

C7_Witness ==
    \E c \in RedirectCodes :
        /\ Settled(c)
        /\ epoch[c].returned = 3
        /\ epoch[c].written
        /\ Clicks(store[c]) = 2

\* a create's PutItem under c succeeds in this step
CreateWrites(c) ==
    \E p \in Procs :
        /\ pc[p] = "create_put" /\ pc'[p] = "done"
        /\ loc[p].shortCode = c
        /\ loc'[p].putOk

\* resolve p's write-back under c succeeds in this step
WritesBack(p, c) ==
    /\ pc[p] = "redirect_put" /\ pc'[p] = "done"
    /\ loc[p].shortCode = c
    /\ loc'[p].putOk

\* the record resolve p read is no longer the one stored
Stale(p, c) == store[c] # loc[p].item

\* C8 as stated: while a record exists its stored clickCount never decreases.
C8_NeverDecreases ==
    [][\A c \in DOMAIN store \cap DOMAIN store' :
          Clicks(store'[c]) >= Clicks(store[c])]_vars

\* C8, amended: the stored clickCount of an existing record decreases only
\* when a create overwrites the record (back to 0) or when a resolve writes
\* back a record that another write has replaced since that resolve read it;
\* a write-back of the record as stored raises it by exactly 1.
C8_DecreasesOnlyByOverwrite ==
    [][\A c \in DOMAIN store \cap DOMAIN store' :
          /\ Clicks(store'[c]) < Clicks(store[c])
             => \/ CreateWrites(c) /\ Clicks(store'[c]) = 0
                \/ \E p \in Procs : WritesBack(p, c) /\ Stale(p, c)
          /\ \A p \in Procs :
                (WritesBack(p, c) /\ ~ Stale(p, c))
                => Clicks(store'[c]) = Clicks(store[c]) + 1]_vars

C8_Witness ==
    \E p, q \in Procs :
        /\ IsDone(p, "handleCreate")
        /\ loc[p].putOk
        /\ q \in Readers(loc[p].shortCode)
        /\ Clicks(loc[q].item) >= 1
        /\ Clicks(store[loc[p].shortCode]) = 0

RECURSIVE StoredClicks(_)
\* the sum of the click counts stored under a set of codes
StoredClicks(codes) ==
    IF codes = {} THEN 0
    ELSE LET c == CHOOSE x \in codes : TRUE
         IN Clicks(store[c]) + StoredClicks(codes \ {c})

\* C9: a report whose scan succeeded is answered 200 with urls_created =
\* active_urls = the number of records stored (expired ones included) and
\* urls_accessed = unique_visitors = the sum of their click counts, and
\* carries no error; on an empty store all four are 0.
C9_ReportCounts ==
    \A p \in Procs :
        (IsDone(p, "handleMetrics") /\ loc[p].readOk)
        => /\ resp[p].StatusCode = 200
           /\ "error" \notin DOMAIN resp[p].Body
           /\ resp[p].Body.urls_created = Cardinality(DOMAIN store)
           /\ resp[p].Body.active_urls = Cardinality(DOMAIN store)
           /\ resp[p].Body.urls_accessed = StoredClicks(DOMAIN store)
           /\ resp[p].Body.unique_visitors = StoredClicks(DOMAIN store)
           /\ DOMAIN store = {}
              => /\ resp[p].Body.urls_created = 0 /\ resp[p].Body.active_urls = 0
                 /\ resp[p].Body.urls_accessed = 0 /\ resp[p].Body.unique_visitors = 0

C9_Witness ==
    \E p \in Procs :
        /\ IsDone(p, "handleMetrics")
        /\ loc[p].readOk
        /\ resp[p].Body.urls_created = 2
        /\ resp[p].Body.urls_accessed = 1
        /\ \E c \in DOMAIN store : store[c].expires_at < now

\* C10: a resolve that read a record and found it unexpired is answered 301
\* with Location = the original_url it read, whether its write-back
\* succeeded or failed and whatever became of the metric emission.
C10_RedirectSurvivesFailures ==
    \A p \in Procs :
        (/\ IsDone(p, "handleRedirect")
         /\ loc[p].found
         /\ loc[p].nowUnix <= loc[p].record.ExpiresAt)
        => /\ resp[p].StatusCode = 301
           /\ resp[p].Location = loc[p].item.original_url
           /\ loc[p].puts = 1

C10_Witness ==
    \E p \in Procs :
        /\ IsDone(p, "handleRedirect")
        /\ resp[p].StatusCode = 301
        /\ ~ loc[p].putOk
        /\ goroutines["UrlsAccessed"] >= 1
        /\ sink["UrlsAccessed"] = 0

\* one of the three method/path combinations the handler serves
IsServed(request) ==
    \/ request.method = "POST" /\ request.rawPath = "/create"
    \/ request.method = "GET" /\ request.rawPath = "/s/{shortCode}"
    \/ request.method = "GET" /\ request.rawPath = "/metrics"

\* C11: a request of any other method/path combination is answered, in the
\* step that receives it, 404 {"error": "Not found"}; the step issues no store
\* call, starts no metric goroutine and leaves store and metrics sink as they were.
C11_OtherRoutesNotFound ==
    [][\A p \in Procs :
          (pc[p] = "idle" /\ pc'[p] # "idle" /\ ~ IsServed(req'[p]))
          => /\ pc'[p] = "done"
             /\ resp'[p] = Response(404, ErrorBody("Not found"), EmptyString)
             /\ loc'[p] = NoLocals
             /\ store' = store
             /\ sink' = sink
             /\ goroutines' = goroutines]_vars

C11_Witness ==
    \E p \in Procs :
        /\ pc[p] = "done"
        /\ req[p].method = "POST"
        /\ req[p].shortCode \in DOMAIN store
        /\ resp[p].StatusCode = 404
        /\ resp[p].Body = ErrorBody("Not found")

\* C12: a create whose PutItem failed is answered 500 {"error": "Internal
\* server error"} without a short_url, and no create invocation ever issues
\* more than one PutItem.
C12_CreateWriteFailure ==
    \A p \in Procs :
        /\ Route(req[p]) = "handleCreate" => loc[p].puts <= 1
        /\ (IsDone(p, "handleCreate") /\ loc[p].puts >= 1 /\ ~ loc[p].putOk)
           => /\ resp[p].StatusCode = 500
              /\ resp[p].Body = ErrorBody("Internal server error")
              /\ "short_url" \notin DOMAIN resp[p].Body
              /\ loc[p].puts = 1

C12_Witness ==
    \E p \in Procs :
        /\ IsDone(p, "handleCreate")
        /\ loc[p].puts = 1
        /\ ~ loc[p].putOk
        /\ resp[p].StatusCode = 500
        /\ loc[p].shortCode \notin DOMAIN store

\* C13: a report whose Scan failed is answered, in the step that receives the
\* request, 200 with the four counters 0 and an error flag, and the store is
\* left unchanged.
C13_ScanFailureDegrades ==
    [][\A p \in Procs :
          (/\ pc[p] = "idle" /\ pc'[p] # "idle"
           /\ Route(req'[p]) = "handleMetrics"
           /\ ~ loc'[p].readOk)
          => /\ pc'[p] = "done"
             /\ resp'[p].StatusCode = 200
             /\ resp'[p].Body.urls_created = 0
             /\ resp'[p].Body.urls_accessed = 0
             /\ resp'[p].Body.unique_visitors = 0
             /\ resp'[p].Body.active_urls = 0
             /\ "error" \in DOMAIN resp'[p].Body
             /\ store' = store]_vars

C13_Witness ==
    \E p \in Procs :
        /\ IsDone(p, "handleMetrics")
        /\ ~ loc[p].readOk
        /\ resp[p].StatusCode = 200
        /\ "error" \in DOMAIN resp[p].Body
        /\ \E c \in DOMAIN store : Clicks(store[c]) >= 1

\* C14: a resolve's write-back over an existing record leaves the
\* original_url and the short_code stored under that code as they were
\* immediately before the write.
C14_WriteBackKeepsUrl ==
    [][\A p \in Procs : \A c \in DOMAIN store :
          WritesBack(p, c)
          => /\ store'[c].original_url = store[c].original_url
             /\ store'[c].short_code = store[c].short_code]_vars

\* C15: while nothing but creates has written under a code since the last
\* create(u) landed, the store holds under code(u) one record with
\* original_url = u, short_code = code(u) and click count 0, and every
\* successful create(u) answers the short_url of code(u).
C15_CreatesIdempotent ==
    /\ \A c \in DOMAIN epoch :
          ~ epoch[c].written
          => /\ c \in DOMAIN store
             /\ c = generateShortCode(epoch[c].url)
             /\ store[c].short_code = c
             /\ store[c].original_url = epoch[c].url
             /\ Clicks(store[c]) = 0
    /\ \A p \in Procs :
          (IsDone(p, "handleCreate") /\ loc[p].putOk)
          => resp[p].Body.short_url = ShortUrl(generateShortCode(SubmittedUrl(req[p])))

\* two creates of one URL in flight at once, built at different instants:
\* one has landed and been answered, the other is about to overwrite it
C15_Witness ==
    \E p, q \in Procs :
        /\ IsDone(p, "handleCreate")
        /\ loc[p].putOk
        /\ pc[q] = "create_put"
        /\ loc[q].rawURL = loc[p].rawURL
        /\ loc[q].record.CreatedAt # loc[p].record.CreatedAt
        /\ store[loc[p].shortCode] = MarshalMap(loc[p].record)

\* C16: a resolve's write-back over an existing record never stores an
\* expires_at later than the one stored immediately before the write.
C16_ExpiryNotExtended ==
    [][\A p \in Procs : \A c \in DOMAIN store :
          WritesBack(p, c) => store'[c].expires_at <= store[c].expires_at]_vars

\* C17: the record a successful create has just stored has expires_at equal
\* to its created_at plus 604800 seconds, and the expires_at of the response
\* denotes the stored expires_at.
C17_ExpiryIsCreationPlusSevenDays ==
    \A p \in Procs :
        (IsDone(p, "handleCreate") /\ loc[p].putOk)
        => LET item == store[loc[p].shortCode] IN
           /\ item.created_at = FormatRFC3339(item.expires_at - 604800)
           /\ resp[p].Body.expires_at = FormatRFC3339(item.expires_at)

\* C18: a code absent from the store becomes present only by the PutItem of
\* a create.
C18_OnlyCreateCreates ==
    [][\A c \in DOMAIN store' \ DOMAIN store : CreateWrites(c)]_vars

\* C19: when a create(u) received at instant t has been answered 200, the
\* record stored under code(u) has short_code = code(u), original_url = u,
\* expires_at = t + 7 days and click count 0, whatever was stored before.
C19_CreateOverwrites ==
    \A p \in Procs :
        (IsDone(p, "handleCreate") /\ resp[p].StatusCode = 200)
        => LET u == SubmittedUrl(req[p])
               c == generateShortCode(u)
           IN /\ c \in DOMAIN store
              /\ store[c].short_code = c
              /\ store[c].original_url = u
              /\ store[c].expires_at = loc[p].began + 7 * 24 * 3600
              /\ Clicks(store[c]) = 0
              /\ DOMAIN store[c] = {"short_code", "original_url", "expires_at", "created_at"}

\* the create of one URL has replaced the clicked record of another URL of
\* the same code, which a resolve in flight still holds
C19_Witness ==
    \E p, q \in Procs :
        /\ IsDone(p, "handleCreate")
        /\ resp[p].StatusCode = 200
        /\ q \in Readers(loc[p].shortCode)
        /\ Clicks(loc[q].item) >= 1
        /\ loc[q].item.original_url # loc[p].rawURL
        /\ store[loc[p].shortCode].original_url = loc[p].rawURL

\* C20: the step of a resolve that produces the 301 starts the "UrlsAccessed"
\* emission as a goroutine that has not run when the response is produced,
\* and leaves the metrics sink untouched; the emission, when it runs, whether
\* it succeeds or fails, changes no response, no invocation and not the store.
C20_EmissionDetached ==
    [][/\ \A p \in Procs :
             (pc[p] = "redirect_put" /\ pc'[p] = "done")
             => /\ resp'[p].StatusCode = 301
                /\ goroutines'["UrlsAccessed"] = goroutines["UrlsAccessed"] + 1
                /\ sink' = sink
       /\ goroutines'["UrlsAccessed"] < goroutines["UrlsAccessed"]
          => /\ store' = store
             /\ resp' = resp
             /\ pc' = pc]_vars

\* a resolve was answered 301 and its click stored; its emission has run
\* since and failed
C20_Witness ==
    \E c \in DOMAIN store :
        /\ c \in DOMAIN epoch
        /\ epoch[c].returned = 2
        /\ Clicks(store[c]) = 2
        /\ goroutines["UrlsAccessed"] = 0
        /\ sink["UrlsAccessed"] = 0
        /\ \A p \in Procs : pc[p] = "idle"

\* invocation p has received a request and produced no response yet
Busy(p) == pc[p] \notin {"idle", "done"}

\* C21: an invocation whose own handler steps are taken whenever they stay
\* possible (each of its store calls returns) eventually produces its
\* response, whatever the other invocations and the metric goroutines do;
\* create, resolve and report alike.
C21_NoBlocking ==
    \A p \in Procs : WF_vars(OwnStep(p)) => (Busy(p) ~> pc[p] = "done")

\* an invocation has produced its response while another one on the same
\* code is still in flight and a metric goroutine has not run
C21_Witness ==
    \E p, q \in Procs :
        /\ p # q
        /\ pc[p] = "done"
        /\ Busy(q)
        /\ loc[q].shortCode = loc[p].shortCode
        /\ loc[p].shortCode # EmptyString
        /\ goroutines["UrlsAccessed"] >= 1

\* C22: the Location of every 301 a resolve of code c produces is the URL
\* of a create whose PutItem had succeeded before, and c is the code derived
\* from that URL.
C22_RedirectsToCreatedUrl ==
    \A p \in Procs :
        (IsDone(p, "handleRedirect") /\ resp[p].StatusCode = 301)
        => /\ resp[p].Location \in landed
           /\ SubSeq(Sha256Hex(resp[p].Location), 1, 8) = req[p].shortCode

\* a 301 to the second of two URLs of one code, whose create landed over
\* the record of the first
C22_Witness ==
    \E p \in Procs :
        /\ IsDone(p, "handleRedirect")
        /\ resp[p].StatusCode = 301
        /\ resp[p].Location = UrlCollideB
        /\ landed = {UrlCollideA, UrlCollideB}

\* invocation p is a resolve that takes a step
ResolveSteps(p) ==
    /\ pc'[p] # pc[p]
    /\ pc'[p] # "idle"
    /\ Route(req'[p]) = "handleRedirect"

\* C23: a resolve dispatches the "UrlsAccessed" metric exactly in the step
\* that produces its 301, once; a resolve that ends in another response has
\* issued no PutItem, started no goroutine and left the store as it was in
\* every one of its steps.
C23_NoEffectWithoutRedirect ==
    [][\A p \in Procs :
          ResolveSteps(p)
          => /\ (pc'[p] = "done" /\ resp'[p].StatusCode = 301)
                => /\ goroutines' = [goroutines EXCEPT !["UrlsAccessed"] = @ + 1]
                   /\ loc'[p].spawned = 1
             /\ ~ (pc'[p] = "done" /\ resp'[p].StatusCode = 301)
                => /\ store' = store
                   /\ goroutines' = goroutines
                   /\ sink' = sink
                   /\ loc'[p].puts = 0
                   /\ loc'[p].spawned = 0]_vars

\* a resolve found its record expired and answered 404; the clicked record is
\* still stored
C23_Witness ==
    \E p \in Procs :
        /\ IsDone(p, "handleRedirect")
        /\ resp[p].StatusCode = 404
        /\ loc[p].found
        /\ loc[p].puts = 0
        /\ loc[p].shortCode \in DOMAIN store
        /\ store[loc[p].shortCode] = loc[p].item
        /\ Clicks(loc[p].item) >= 1

\* C24: every stored item is keyed by its short_code, which is the code
\* derived from its original_url; the original_url has scheme http or https
\* and the click count is not negative.
C24_StoreWellFormed ==
    \A c \in DOMAIN store :
        /\ store[c].short_code = c
        /\ SubSeq(Sha256Hex(store[c].original_url), 1, 8) = c
        /\ ~ urlParse(store[c].original_url).err
        /\ urlParse(store[c].original_url).Scheme \in {SchemeHttp, SchemeHttps}
        /\ Clicks(store[c]) >= 0

\* two records of different codes, one created under an upper-case scheme,
\* one written back by a resolve
C24_Witness ==
    /\ Cardinality(DOMAIN store) = 2
    /\ \E c \in DOMAIN store : store[c].original_url = UrlUpper /\ Clicks(store[c]) = 2
    /\ \E c \in DOMAIN store : store[c].original_url = UrlFoo

====
